---- MODULE Spec2Model ----
(***************************************************************************)
(* A model of h2o-py/h2o/utils/typechecks.py: the type matcher            *)
(* (_check_type), the assertion functions (assert_is_type and its typed   *)
(* wrappers, assert_matches, assert_satisfies, assert_true) and the       *)
(* call-site introspector (_retrieve_assert_arguments).                   *)
(*                                                                         *)
(* One behaviour is one assertion call made by a caller: the state holds  *)
(* the interpreter build (Python 2 or 3), the call's arguments, the call  *)
(* stack, the caller's source file as it is on disk, and the position of  *)
(* the call inside the library.                                           *)
(*                                                                         *)
(* Text is modelled as a sequence of atoms: every token of the source is  *)
(* one atom (one column wide), a blank is the atom " ", a newline is the   *)
(* atom "\n" and a backslash is the atom "\\".                             *)
(***************************************************************************)
EXTENDS Integers, Sequences, FiniteSets, TLC

VARIABLES
    py2,            \* PY2 of h2o.utils.compatibility: the interpreter is Python 2
    fn,             \* the assertion function the caller calls
    var,            \* the value under test, given by its class
    expected_type,  \* the type specification handed to assert_is_type
    cond,           \* assert_satisfies/assert_true: cond; assert_matches: re.match found a match
    stack,          \* the call stack, oldest frame first
    readable,       \* the caller's source file can be opened for reading
    source,         \* the caller's source file on disk: a sequence of lines of atoms
    call,           \* where the generator put the assertion call in source, and its arguments
    pc,             \* position of the call inside the library
    result,         \* what _check_type gave in assert_is_type
    fr,             \* the stack walk's frame: an index of stack, 0 for None
    handles,        \* file handles currently open
    nopens,         \* how many times open() was called
    tk,             \* the tokenizer: [row, col, parenlev, ended]
    step,           \* _retrieve_assert_arguments: step
    level,          \* _retrieve_assert_arguments: level
    args_tokens,    \* _retrieve_assert_arguments: args_tokens
    args,           \* what _retrieve_assert_arguments returned
    outcome         \* how the assertion call ended: "return" or the exception raised

vars == <<py2, fn, var, expected_type, cond, stack, readable, source, call, pc,
          result, fr, handles, nopens, tk, step, level, args_tokens, args, outcome>>

(***************************************************************************)
(* Bounds of the model.                                                    *)
(***************************************************************************)
\* the longest alternation (tuple) among the type specifications drawn
MaxAlt == 2
\* the most arguments of a generated assertion call
MaxArgs == 2

(***************************************************************************)
(* Values and type specifications.                                         *)
(***************************************************************************)
\* The classes of the values under test. "long" and "unicode" exist on Python 2 only.
Classes(p2) ==
    {"NoneType", "bool", "int", "float", "str", "list", "dict"}
        \cup (IF p2 THEN {"long", "unicode"} ELSE {})

\* The classes a value of class c is an instance of (bool is a subclass of int).
Bases(c) == {c, "object"} \cup (IF c = "bool" THEN {"int"} ELSE {})

\* isinstance(s, t) for a class t or a tuple (here: set) of classes.
IsInstance(s, ts) == Bases(s) \cap ts # {}

\* A type specification: None, a type, a tuple of specifications, or anything else.
NoneSpec == [kind |-> "None", cls |-> "", items |-> <<>>]
TypeSpec(c) == [kind |-> "type", cls |-> c, items |-> <<>>]
TupleSpec(seq) == [kind |-> "tuple", cls |-> "", items |-> seq]
\* an object that is neither a type, None nor a tuple (a string such as "int", a list, a number)
OtherSpec == [kind |-> "other", cls |-> "", items |-> <<>>]

_str_type(p2) == IF p2 THEN {"str", "unicode"} ELSE {"str"}
_int_type(p2) == IF p2 THEN {"int", "long"} ELSE {"int"}
_num_type(p2) == IF p2 THEN {"int", "long", "float"} ELSE {"int", "float"}

is_str(p2, s) == IsInstance(s, _str_type(p2))
is_int(p2, i) == IsInstance(i, _int_type(p2))
is_numeric(p2, x) == IsInstance(x, _num_type(p2))
is_listlike(s) == IsInstance(s, {"list", "tuple"})

Bool2Str(b) == IF b THEN "True" ELSE "False"

\* any(_check_type(s, tt, _nested=True) for tt in stype): evaluated left to right,
\* stopping at the first alternative that matches or raises.
RECURSIVE AnyNested(_, _, _, _)
\* _check_type(s, stype, _nested): "True", "False" or "RuntimeError".
RECURSIVE _check_type(_, _, _, _)
AnyNested(p2, s, items, i) ==
    IF i > Len(items) THEN "False"
    ELSE LET r == _check_type(p2, s, items[i], TRUE)
         IN  IF r = "False" THEN AnyNested(p2, s, items, i + 1) ELSE r

_check_type(p2, s, stype, _nested) ==
    IF stype.kind = "None" THEN Bool2Str(s = "NoneType")
    ELSE IF stype.kind = "type" /\ stype.cls = "str" THEN Bool2Str(is_str(p2, s))
    ELSE IF stype.kind = "type" /\ stype.cls = "int" THEN Bool2Str(is_int(p2, s))
    ELSE IF stype.kind = "type" THEN Bool2Str(IsInstance(s, {stype.cls}))
    ELSE IF stype.kind = "tuple" /\ ~_nested THEN AnyNested(p2, s, stype.items, 1)
    ELSE "RuntimeError"

(***************************************************************************)
(* Source text, the tokenizer and the untokenizer.                         *)
(* tokenize.generate_tokens and tokenize.untokenize belong to the Python   *)
(* standard library; they are modelled by what they do on atoms.           *)
(* INDENT, DEDENT, COMMENT, STRING and NUMBER tokens are left out: the     *)
(* scan treats them like a NAME that does not start with "assert_".        *)
(***************************************************************************)
NameAtoms == {"assert_x", "assert_y", "x", "y", "in"}
OpAtoms == {"(", ")", "[", "]", "{", "}", ",", "="}

\* tokenize.NAME / tokenize.OP of an atom
TokType(a) == IF a \in NameAtoms THEN "NAME" ELSE "OP"

\* ttt[1].startswith("assert_")
StartsWithAssert(a) == a \in {"assert_x", "assert_y"}

\* The tokenizer starts at line `first` of the file (the lines before it were read
\* off the handle); its rows count from 1 there.
TkInit == [row |-> 1, col |-> 0, parenlev |-> 0, ended |-> FALSE]

\* The columns (0-based) of line ln, from column c on, that hold a token.
TokCols(ln, c) == {k \in c .. Len(ln) - 1 : ln[k + 1] # " "}

Min(S) == CHOOSE m \in S : \A n \in S : m <= n

\* What the token generator does when asked for its next token:
\*   "token": it yields tok and moves to state next;
\*   "TokenError": it raises (end of file inside a bracketed or continued statement);
\*   "stop": the stream has ended (the for loop ends).
NextToken(src, first, t) ==
    LET abs == first + t.row - 1
    IN  IF t.ended THEN [what |-> "stop", tok |-> <<>>, next |-> t]
        ELSE IF abs > Len(src) THEN
            IF t.parenlev # 0
            THEN [what |-> "TokenError", tok |-> <<>>, next |-> t]
            ELSE [what |-> "token",
                  tok |-> [type |-> "ENDMARKER", string |-> "",
                           srow |-> t.row, scol |-> 0, erow |-> t.row, ecol |-> 0],
                  next |-> [t EXCEPT !.ended = TRUE]]
        ELSE LET ln == src[abs]
                 cols == TokCols(ln, t.col)
             IN  IF cols = {}
                 THEN [what |-> "token",
                       tok |-> [type |-> IF t.parenlev > 0 THEN "NL" ELSE "NEWLINE",
                                string |-> "\n",
                                srow |-> t.row, scol |-> Len(ln),
                                erow |-> t.row, ecol |-> Len(ln) + 1],
                       next |-> [t EXCEPT !.row = t.row + 1, !.col = 0]]
                 ELSE LET c == Min(cols)
                          a == ln[c + 1]
                          d == IF a \in {"(", "[", "{"} THEN 1
                               ELSE IF a \in {")", "]", "}"} THEN -1 ELSE 0
                      IN  [what |-> "token",
                           tok |-> [type |-> TokType(a), string |-> a,
                                    srow |-> t.row, scol |-> c,
                                    erow |-> t.row, ecol |-> c + 1],
                           next |-> [t EXCEPT !.col = c + 1,
                                              !.parenlev = t.parenlev + d]]

\* n copies of the atoms in piece
RECURSIVE Repeat(_, _)
Repeat(piece, n) == IF n <= 0 THEN <<>> ELSE piece \o Repeat(piece, n - 1)

\* tokenize.untokenize of full (5-tuple) tokens: Untokenizer.add_whitespace pads
\* with a backslash-newline per skipped row and a blank per skipped column, from
\* the position (1, 0). The tokens of one argument are in source order, so the
\* ValueError for a token that starts before the previous one ended cannot arise.
RECURSIVE UntokenizeFrom(_, _, _, _)
UntokenizeFrom(toks, i, prow, pcol) ==
    IF i > Len(toks) \/ toks[i].type = "ENDMARKER" THEN <<>>
    ELSE LET t == toks[i]
             row_offset == t.srow - prow
             col0 == IF row_offset > 0 THEN 0 ELSE pcol
             pad == Repeat(<<"\\", "\n">>, row_offset) \o Repeat(<<" ">>, t.scol - col0)
             nl == t.type \in {"NEWLINE", "NL"}
         IN  pad \o (IF t.string = "" THEN <<>> ELSE <<t.string>>)
                 \o UntokenizeFrom(toks, i + 1,
                                   IF nl THEN t.erow + 1 ELSE t.erow,
                                   IF nl THEN 0 ELSE t.ecol)

untokenize(toks) == UntokenizeFrom(toks, 1, 1, 0)

IsSpace(a) == a \in {" ", "\n"}

\* str.strip()
RECURSIVE LStrip(_)
LStrip(s) == IF s # <<>> /\ IsSpace(Head(s)) THEN LStrip(Tail(s)) ELSE s
RECURSIVE RStrip(_)
RStrip(s) ==
    IF s # <<>> /\ IsSpace(s[Len(s)]) THEN RStrip(SubSeq(s, 1, Len(s) - 1)) ELSE s
strip(s) == RStrip(LStrip(s))

\* str.replace("\n", " ")
ReplaceNewlines(s) == [i \in 1 .. Len(s) |-> IF s[i] = "\n" THEN " " ELSE s[i]]

\* ArgText without the replace: the newlines inside an argument stay
ArgTextKeepsNewlines(at) == strip(untokenize(at))

\* tokenize.untokenize(at).strip().replace("\n", " ")
ArgText(at) == ReplaceNewlines(strip(untokenize(at)))

(***************************************************************************)
(* The inputs: call stacks and source files.                               *)
(***************************************************************************)
\* co_filename of the library's own code
this_filename == "typechecks.py"

Frame(file, name, lineno) == [file |-> file, name |-> name, lineno |-> lineno]

\* The functions of the library that call assert_is_type with a fixed specification.
Wrappers == {"assert_is_none", "assert_is_str", "assert_maybe_str", "assert_is_int",
             "assert_maybe_int", "assert_is_bool", "assert_is_numeric",
             "assert_maybe_numeric"}

Assertions == Wrappers \cup {"assert_is_type", "assert_matches", "assert_satisfies",
                             "assert_true"}

LibFunctions == Assertions \cup {"_retrieve_assert_arguments"}

\* The specification each typed wrapper passes to assert_is_type.
WrapperSpec(f) ==
    CASE f = "assert_is_none" -> NoneSpec
      [] f = "assert_is_str" -> TypeSpec("str")
      [] f = "assert_maybe_str" -> TupleSpec(<<TypeSpec("str"), NoneSpec>>)
      [] f = "assert_is_int" -> TypeSpec("int")
      [] f = "assert_maybe_int" -> TupleSpec(<<TypeSpec("int"), NoneSpec>>)
      [] f = "assert_is_bool" -> TypeSpec("bool")
      [] f = "assert_is_numeric" -> TupleSpec(<<TypeSpec("int"), TypeSpec("float")>>)
      [] f = "assert_maybe_numeric" ->
            TupleSpec(<<TypeSpec("int"), TypeSpec("float"), NoneSpec>>)

\* expected_type before assert_is_type is entered through a wrapper, and for the
\* assertions that take none
NoSpec == [kind |-> "unset", cls |-> "", items |-> <<>>]

\* The caller's frames when it calls the assertion, the newest reporting line ln:
\* a module, a function called from another file, an interactive session (whose
\* file "<stdin>" cannot be opened), and the library's own file run as a program
\* (no frame outside the library).
CallerStacks(ln) ==
    { <<Frame("user.py", "<module>", ln)>>,
      <<Frame("main.py", "<module>", 1), Frame("user.py", "f", ln)>>,
      <<Frame("user.py", "<module>", 1), Frame("main.py", "g", 1),
        Frame("user.py", "f", ln)>>,
      <<Frame("<stdin>", "<module>", ln)>>,
      <<Frame(this_filename, "<module>", ln)>> }

\* The arguments a generated call is built from: expressions with balanced brackets.
ArgShapes ==
    { <<"x">>,
      <<"(", "x", ")">>,
      <<"x", " ", "in", " ", "[", "x", ",", " ", "y", "]">>,
      <<"x", "(", "y", ",", " ", "y", ")">>,
      <<"{", "x", ",", " ", "(", "y", ",", " ", "y", ")", "}">> }

ArgLists == UNION {[1 .. n -> ArgShapes] : n \in 1 .. MaxArgs}

\* Where a generated call is wrapped: nowhere, after every comma between two
\* arguments, or after every comma.
Breaks == {"none", "top", "all"}

\* s with every blank that follows a comma replaced by a line break and a blank
BreakAfterCommas(s) ==
    [i \in 1 .. Len(s) |->
        IF i > 1 /\ s[i] = " " /\ s[i - 1] = "," THEN "\n" ELSE s[i]]

RECURSIVE JoinArgs(_, _, _)
JoinArgs(al, i, sep) ==
    IF i > Len(al) THEN <<>>
    ELSE (IF i > 1 THEN sep ELSE <<>>) \o al[i] \o JoinArgs(al, i + 1, sep)

\* The text of a call of assert_x with the arguments al, wrapped as brk says;
\* a wrapped line continues under the call with a blank of indentation.
CallText(head, al, brk) ==
    LET inner == IF brk = "all" THEN [i \in 1 .. Len(al) |-> BreakAfterCommas(al[i])]
                 ELSE al
        sep == IF brk = "none" THEN <<",", " ">> ELSE <<",", "\n">>
    IN  head \o <<"assert_x", "(">> \o JoinArgs(inner, 1, sep) \o <<")">>

\* text cut into lines at its newlines; a line after a newline starts with a blank
RECURSIVE SplitLines(_, _)
SplitLines(text, cur) ==
    IF text = <<>> THEN <<cur>>
    ELSE IF Head(text) = "\n" THEN <<cur>> \o SplitLines(Tail(text), <<" ">>)
    ELSE SplitLines(Tail(text), Append(cur, Head(text)))

\* What comes before the call on its line, the lines before it and after it.
Heads == {<<>>, <<"y", " ", "=", " ">>}
Befores == {<<>>, << <<"y", " ", "=", " ", "x">> >>}
Afters == {<<>>, << <<"assert_y", "(", "y", ")">> >>}

\* A file that holds one generated call, and where the call is.
GeneratedFile(before, head, al, brk, after) ==
    LET lines == SplitLines(CallText(head, al, brk), <<>>)
    IN  [source |-> before \o lines \o after,
         call |-> [row |-> Len(before) + 1, nlines |-> Len(lines), args |-> al]]

NoCall == [row |-> 0, nlines |-> 0, args |-> <<>>]

\* Files that do not hold the call as the program ran it: the file changed on
\* disk after it was loaded, or the function is called under another name.
OtherFiles ==
    { <<>>,
      << <<"x", "(", "y", ")">> >>,
      << <<"x", "(", "y", ")">>, <<"assert_y", "(", "y", ")">> >>,
      << <<"assert_x", " ", "=", " ", "y">> >>,
      << <<"assert_x", "(", "x", "]", ")">> >>,
      << <<"assert_x", "(", "x", ",">> >>,
      << <<"x", ",", " ", "y", ")">>, <<"y">> >>,
      << <<"assert_x", "(", "x", ",", " ", "y", ",", ")">> >>,
      << <<")", " ", "assert_x", "(", "x">> >> }

(***************************************************************************)
(* The initial states: the caller is about to call the assertion.          *)
(* The inputs are drawn in three families, each wide in one direction:     *)
(* values and type specifications, calls and stacks, source files.         *)
(***************************************************************************)
SpecItems ==
    {NoneSpec, OtherSpec, TupleSpec(<<TypeSpec("int")>>)}
        \cup {TypeSpec(c) : c \in {"str", "int", "bool", "float"}}

\* None, types, other objects, and tuples of up to MaxAlt of those or of tuples
SpecUniverse ==
    (SpecItems \ {TupleSpec(<<TypeSpec("int")>>)})
        \cup {TupleSpec(seq) : seq \in UNION {[1 .. n -> SpecItems] : n \in 0 .. MaxAlt}}

InitControl ==
    /\ pc = "call"
    /\ result = ""
    /\ fr = 0
    /\ handles = 0
    /\ nopens = 0
    /\ tk = TkInit
    /\ step = 0
    /\ level = 0
    /\ args_tokens = <<>>
    /\ args = <<>>
    /\ outcome = ""

\* every value against every type specification, on both interpreters
InitTypes ==
    /\ py2 \in BOOLEAN
    /\ var \in Classes(py2)
    /\ fn \in Wrappers \cup {"assert_is_type"}
    /\ expected_type \in (IF fn = "assert_is_type" THEN SpecUniverse ELSE {NoSpec})
    /\ cond = FALSE
    /\ stack = <<Frame("user.py", "<module>", 1)>>
    /\ readable = TRUE
    /\ LET al == IF fn = "assert_is_type" THEN << <<"x">>, <<"(", "x", ")">> >>
                 ELSE << <<"x">> >>
           g == GeneratedFile(<<>>, <<>>, al, "none", <<>>)
       IN  source = g.source /\ call = g.call

\* every assertion function, from every stack, over files that do not hold the call
InitCalls ==
    /\ py2 = FALSE
    /\ fn \in Assertions
    /\ var \in (IF fn \in {"assert_satisfies", "assert_true"} THEN {"str"}
                ELSE IF fn = "assert_matches" THEN {"str", "int"}
                ELSE {"int", "str", "NoneType"})
    /\ expected_type \in
          (IF fn = "assert_is_type"
           THEN {TypeSpec("int"), TupleSpec(<<TypeSpec("str"), NoneSpec>>), OtherSpec}
           ELSE {NoSpec})
    /\ cond \in (IF fn \in {"assert_matches", "assert_satisfies", "assert_true"}
                 THEN BOOLEAN ELSE {FALSE})
    /\ \/ readable = TRUE /\ source \in OtherFiles
       \/ readable = FALSE /\ source = <<>>
    /\ call = NoCall
    /\ \E ln \in 1 .. Len(source) + 2 : stack \in CallerStacks(ln)

\* the function a call with n arguments in the source is a call of
FunctionsOfArity(n) ==
    IF n = 1 THEN {"assert_is_int"}
    ELSE IF n = 2 THEN {"assert_satisfies", "assert_is_type"}
    ELSE {"assert_is_type"}

\* a failing assertion whose call is in the file, the frame reporting any of its lines
InitFiles ==
    /\ py2 = FALSE
    /\ var = "str"
    /\ cond = FALSE
    /\ readable = TRUE
    /\ \E al \in ArgLists, before \in Befores, head \in Heads, brk \in Breaks,
          after \in Afters :
          LET g == GeneratedFile(before, head, al, brk, after)
          IN  /\ source = g.source
              /\ call = g.call
              /\ fn \in FunctionsOfArity(Len(al))
              /\ \E ln \in g.call.row .. g.call.row + g.call.nlines - 1 :
                    stack = <<Frame("user.py", "<module>", ln)>>
    /\ expected_type = (IF fn = "assert_is_type" THEN TypeSpec("int") ELSE NoSpec)

Init == InitControl /\ (InitTypes \/ InitCalls \/ InitFiles)

(***************************************************************************)
(* The assertion functions.                                                *)
(***************************************************************************)
\* The stack once the library's frames are gone (a return, or an exception
\* propagating to the caller).
Unwind(st) == SelectSeq(st, LAMBDA f : f.name \notin LibFunctions)

\* The call ends: it returns or raises how.
Finish(how) ==
    /\ outcome' = how
    /\ stack' = Unwind(stack)
    /\ pc' = "done"

\* A typed wrapper calls assert_is_type with its specification.
WrapperCall ==
    /\ pc = "call"
    /\ fn \in Wrappers
    /\ stack' = Append(stack, Frame(this_filename, fn, 0))
    /\ expected_type' = WrapperSpec(fn)
    /\ pc' = "assert_is_type"
    /\ UNCHANGED <<py2, fn, var, cond, readable, source, call, result, fr, handles,
                   nopens, tk, step, level, args_tokens, args, outcome>>

InAssertIsType == (pc = "call" /\ fn = "assert_is_type") \/ pc = "assert_is_type"

\* AssertIsTypePass with the name looked up before the check: the file is opened
AssertIsTypePassEager ==
    /\ InAssertIsType
    /\ _check_type(py2, var, expected_type, FALSE) = "True"
    /\ result' = "True"
    /\ nopens' = nopens + 1
    /\ Finish("return")
    /\ UNCHANGED <<py2, fn, var, expected_type, cond, readable, source, call, fr,
                   handles, tk, step, level, args_tokens, args>>

\* if _check_type(var, expected_type): return
AssertIsTypePass ==
    /\ InAssertIsType
    /\ _check_type(py2, var, expected_type, FALSE) = "True"
    /\ result' = "True"
    /\ Finish("return")
    /\ UNCHANGED <<py2, fn, var, expected_type, cond, readable, source, call, fr,
                   handles, nopens, tk, step, level, args_tokens, args>>

\* _check_type raises RuntimeError, which assert_is_type does not catch
AssertIsTypeInvalid ==
    /\ InAssertIsType
    /\ _check_type(py2, var, expected_type, FALSE) = "RuntimeError"
    /\ result' = "RuntimeError"
    /\ Finish("RuntimeError")
    /\ UNCHANGED <<py2, fn, var, expected_type, cond, readable, source, call, fr,
                   handles, nopens, tk, step, level, args_tokens, args>>

\* the check fails: vname = _retrieve_assert_arguments()[0]
AssertIsTypeFail ==
    /\ InAssertIsType
    /\ _check_type(py2, var, expected_type, FALSE) = "False"
    /\ result' = "False"
    /\ stack' = Append(stack, Frame(this_filename, "assert_is_type", 0))
    /\ pc' = "retrieve"
    /\ UNCHANGED <<py2, fn, var, expected_type, cond, readable, source, call, fr,
                   handles, nopens, tk, step, level, args_tokens, args, outcome>>

\* m = re.match(regex, v): re.match raises TypeError for a v that is not a string
AssertMatchesTypeError ==
    /\ pc = "call"
    /\ fn = "assert_matches"
    /\ ~is_str(py2, var)
    /\ Finish("TypeError")
    /\ UNCHANGED <<py2, fn, var, expected_type, cond, readable, source, call, result,
                   fr, handles, nopens, tk, step, level, args_tokens, args>>

\* m is not None: return m
AssertMatchesPass ==
    /\ pc = "call"
    /\ fn = "assert_matches"
    /\ is_str(py2, var)
    /\ cond
    /\ Finish("return")
    /\ UNCHANGED <<py2, fn, var, expected_type, cond, readable, source, call, result,
                   fr, handles, nopens, tk, step, level, args_tokens, args>>

\* m is None: vn = _retrieve_assert_arguments()[0]
AssertMatchesFail ==
    /\ pc = "call"
    /\ fn = "assert_matches"
    /\ is_str(py2, var)
    /\ ~cond
    /\ stack' = Append(stack, Frame(this_filename, fn, 0))
    /\ pc' = "retrieve"
    /\ UNCHANGED <<py2, fn, var, expected_type, cond, readable, source, call, result,
                   fr, handles, nopens, tk, step, level, args_tokens, args, outcome>>

\* cond holds: assert_satisfies returns
AssertSatisfiesPass ==
    /\ pc = "call"
    /\ fn = "assert_satisfies"
    /\ cond
    /\ Finish("return")
    /\ UNCHANGED <<py2, fn, var, expected_type, cond, readable, source, call, result,
                   fr, handles, nopens, tk, step, level, args_tokens, args>>

\* not cond: vname, vexpr = _retrieve_assert_arguments()
AssertSatisfiesFail ==
    /\ pc = "call"
    /\ fn = "assert_satisfies"
    /\ ~cond
    /\ stack' = Append(stack, Frame(this_filename, fn, 0))
    /\ pc' = "retrieve"
    /\ UNCHANGED <<py2, fn, var, expected_type, cond, readable, source, call, result,
                   fr, handles, nopens, tk, step, level, args_tokens, args, outcome>>

\* assert_true: raise H2OValueError(message) unless cond
AssertTrue ==
    /\ pc = "call"
    /\ fn = "assert_true"
    /\ Finish(IF cond THEN "return" ELSE "H2OValueError")
    /\ UNCHANGED <<py2, fn, var, expected_type, cond, readable, source, call, result,
                   fr, handles, nopens, tk, step, level, args_tokens, args>>

(***************************************************************************)
(* _retrieve_assert_arguments.                                             *)
(***************************************************************************)
\* WalkContinues that steps over the introspector's own frame only
WalkContinuesOneFrame(st, f) == f # 0 /\ st[f].name = "_retrieve_assert_arguments"

\* while fr is not None and fr.f_code.co_filename == this_filename
WalkContinues(st, f) == f # 0 /\ st[f].file = this_filename

\* open(fr.f_code.co_filename, "r") succeeds: an interactive session has no file,
\* and the caller's file may be gone or unreadable
CanOpen(file) == file # "<stdin>" /\ (file = "user.py" => readable)

\* what the opened file holds
Content(file) == IF file = "user.py" THEN source ELSE <<>>

\* CloseFile that leaves the handle open
CloseFileLeaks(h) == h

\* leaving the with block closes the file
CloseFile(h) == h - 1

\* level after the token: ttt[1] in "([{" adds one, ttt[1] in ")]}" takes one
\* (an OP token is never empty, so the substring tests are membership tests)
LevelAfter(lv, tok) ==
    IF tok.type = "OP" /\ tok.string \in {"(", "[", "{"} THEN lv + 1
    ELSE IF tok.type = "OP" /\ tok.string \in {")", "]", "}"} THEN lv - 1
    ELSE lv

\* IsArgSeparator that takes a comma at any level
IsArgSeparatorAnyLevel(lv, tok) == tok.type = "OP" /\ tok.string = ","

\* level == 0 and ttt[0] == tokenize.OP and ttt[1] == ","
IsArgSeparator(lv, tok) == lv = 0 /\ tok.type = "OP" /\ tok.string = ","

\* level == 0 and ttt[0] == tokenize.OP and ttt[1] == ")"
IsArgListEnd(lv, tok) == lv = 0 /\ tok.type = "OP" /\ tok.string = ")"

\* the assertion calls _retrieve_assert_arguments; tb.tb_frame is its own frame
Retrieve ==
    /\ pc = "retrieve"
    /\ stack' = Append(stack, Frame(this_filename, "_retrieve_assert_arguments", 0))
    /\ fr' = Len(stack) + 1
    /\ pc' = "walk"
    /\ UNCHANGED <<py2, fn, var, expected_type, cond, readable, source, call, result,
                   handles, nopens, tk, step, level, args_tokens, args, outcome>>

\* fr = fr.f_back
WalkStep ==
    /\ pc = "walk"
    /\ WalkContinues(stack, fr)
    /\ fr' = fr - 1
    /\ UNCHANGED <<py2, fn, var, expected_type, cond, stack, readable, source, call,
                   pc, result, handles, nopens, tk, step, level, args_tokens, args,
                   outcome>>

WalkEnd ==
    /\ pc = "walk"
    /\ ~WalkContinues(stack, fr)
    /\ pc' = "open"
    /\ UNCHANGED <<py2, fn, var, expected_type, cond, stack, readable, source, call,
                   result, fr, handles, nopens, tk, step, level, args_tokens, args,
                   outcome>>

\* fr is None: fr.f_code raises AttributeError
OpenNoFrame ==
    /\ pc = "open"
    /\ fr = 0
    /\ Finish("AttributeError")
    /\ UNCHANGED <<py2, fn, var, expected_type, cond, readable, source, call, result,
                   fr, handles, nopens, tk, step, level, args_tokens, args>>

\* open() raises IOError
OpenFails ==
    /\ pc = "open"
    /\ fr # 0
    /\ ~CanOpen(stack[fr].file)
    /\ nopens' = nopens + 1
    /\ Finish("IOError")
    /\ UNCHANGED <<py2, fn, var, expected_type, cond, readable, source, call, result,
                   fr, handles, tk, step, level, args_tokens, args>>

\* with open(fr.f_code.co_filename, "r") as f
OpenFile ==
    /\ pc = "open"
    /\ fr # 0
    /\ CanOpen(stack[fr].file)
    /\ nopens' = nopens + 1
    /\ handles' = handles + 1
    /\ pc' = "skip"
    /\ UNCHANGED <<py2, fn, var, expected_type, cond, stack, readable, source, call,
                   result, fr, tk, step, level, args_tokens, args, outcome>>

\* for i in range(fr.f_lineno - 1): next(f); then the tokenizer is created
SkipLines ==
    /\ pc = "skip"
    /\ stack[fr].lineno - 1 <= Len(Content(stack[fr].file))
    /\ tk' = TkInit
    /\ step' = 0
    /\ args_tokens' = <<>>
    /\ level' = 0
    /\ pc' = "scan"
    /\ UNCHANGED <<py2, fn, var, expected_type, cond, stack, readable, source, call,
                   result, fr, handles, nopens, args, outcome>>

\* next(f) raises StopIteration: the file has fewer lines than the frame reports
SkipLinesStop ==
    /\ pc = "skip"
    /\ stack[fr].lineno - 1 > Len(Content(stack[fr].file))
    /\ handles' = CloseFile(handles)
    /\ Finish("StopIteration")
    /\ UNCHANGED <<py2, fn, var, expected_type, cond, readable, source, call, result,
                   fr, nopens, tk, step, level, args_tokens, args>>

\* what the token generator gives the for loop next
Fetch == NextToken(Content(stack[fr].file), stack[fr].lineno, tk)

\* the tokenizer raises partway through
ScanTokenError ==
    /\ pc = "scan"
    /\ Fetch.what = "TokenError"
    /\ handles' = CloseFile(handles)
    /\ Finish("TokenError")
    /\ UNCHANGED <<py2, fn, var, expected_type, cond, readable, source, call, result,
                   fr, nopens, tk, step, level, args_tokens, args>>

\* the token stream ends: the for loop is left
ScanEnd ==
    /\ pc = "scan"
    /\ Fetch.what = "stop"
    /\ pc' = "untokenize"
    /\ UNCHANGED <<py2, fn, var, expected_type, cond, stack, readable, source, call,
                   result, fr, handles, nopens, tk, step, level, args_tokens, args,
                   outcome>>

\* step 0, not a NAME that starts with "assert_": continue
ScanSkip ==
    /\ pc = "scan"
    /\ Fetch.what = "token"
    /\ step = 0
    /\ ~(Fetch.tok.type = "NAME" /\ StartsWithAssert(Fetch.tok.string))
    /\ tk' = Fetch.next
    /\ UNCHANGED <<py2, fn, var, expected_type, cond, stack, readable, source, call,
                   pc, result, fr, handles, nopens, step, level, args_tokens, args,
                   outcome>>

\* step 0, the first NAME that starts with "assert_": step = 1
ScanName ==
    /\ pc = "scan"
    /\ Fetch.what = "token"
    /\ step = 0
    /\ Fetch.tok.type = "NAME" /\ StartsWithAssert(Fetch.tok.string)
    /\ tk' = Fetch.next
    /\ step' = 1
    /\ UNCHANGED <<py2, fn, var, expected_type, cond, stack, readable, source, call,
                   pc, result, fr, handles, nopens, level, args_tokens, args, outcome>>

\* step 1: assert ttt[0] == tokenize.OP and ttt[1] == "("
ScanParen ==
    /\ pc = "scan"
    /\ Fetch.what = "token"
    /\ step = 1
    /\ Fetch.tok.type = "OP" /\ Fetch.tok.string = "("
    /\ tk' = Fetch.next
    /\ args_tokens' = Append(args_tokens, <<>>)
    /\ step' = 2
    /\ UNCHANGED <<py2, fn, var, expected_type, cond, stack, readable, source, call,
                   pc, result, fr, handles, nopens, level, args, outcome>>

\* step 1: the assertion fails
ScanParenAssert ==
    /\ pc = "scan"
    /\ Fetch.what = "token"
    /\ step = 1
    /\ ~(Fetch.tok.type = "OP" /\ Fetch.tok.string = "(")
    /\ handles' = CloseFile(handles)
    /\ Finish("AssertionError")
    /\ UNCHANGED <<py2, fn, var, expected_type, cond, readable, source, call, result,
                   fr, nopens, tk, step, level, args_tokens, args>>

\* step 2, a comma at level 0: args_tokens.append([])
ScanComma ==
    /\ pc = "scan"
    /\ Fetch.what = "token"
    /\ step = 2
    /\ IsArgSeparator(level, Fetch.tok)
    /\ tk' = Fetch.next
    /\ args_tokens' = Append(args_tokens, <<>>)
    /\ UNCHANGED <<py2, fn, var, expected_type, cond, stack, readable, source, call,
                   pc, result, fr, handles, nopens, step, level, args, outcome>>

\* step 2, a closing parenthesis at level 0: break
ScanClose ==
    /\ pc = "scan"
    /\ Fetch.what = "token"
    /\ step = 2
    /\ ~IsArgSeparator(level, Fetch.tok)
    /\ IsArgListEnd(level, Fetch.tok)
    /\ tk' = Fetch.next
    /\ pc' = "untokenize"
    /\ UNCHANGED <<py2, fn, var, expected_type, cond, stack, readable, source, call,
                   result, fr, handles, nopens, step, level, args_tokens, args,
                   outcome>>

\* step 2, any other token: the level follows the brackets, the token is appended
ScanArg ==
    /\ pc = "scan"
    /\ Fetch.what = "token"
    /\ step = 2
    /\ ~IsArgSeparator(level, Fetch.tok)
    /\ ~IsArgListEnd(level, Fetch.tok)
    /\ LevelAfter(level, Fetch.tok) >= 0
    /\ tk' = Fetch.next
    /\ level' = LevelAfter(level, Fetch.tok)
    /\ args_tokens' = [args_tokens EXCEPT ![Len(args_tokens)] = Append(@, Fetch.tok)]
    /\ UNCHANGED <<py2, fn, var, expected_type, cond, stack, readable, source, call,
                   pc, result, fr, handles, nopens, step, args, outcome>>

\* step 2: assert level >= 0 fails
ScanLevelAssert ==
    /\ pc = "scan"
    /\ Fetch.what = "token"
    /\ step = 2
    /\ ~IsArgSeparator(level, Fetch.tok)
    /\ ~IsArgListEnd(level, Fetch.tok)
    /\ LevelAfter(level, Fetch.tok) < 0
    /\ handles' = CloseFile(handles)
    /\ Finish("AssertionError")
    /\ UNCHANGED <<py2, fn, var, expected_type, cond, readable, source, call, result,
                   fr, nopens, tk, step, level, args_tokens, args>>

\* args = [tokenize.untokenize(at).strip().replace("\n", " ") for at in args_tokens];
\* return args, which leaves the with block
ReturnArgs ==
    /\ pc = "untokenize"
    /\ args' = [i \in 1 .. Len(args_tokens) |-> ArgText(args_tokens[i])]
    /\ handles' = CloseFile(handles)
    /\ stack' = SubSeq(stack, 1, Len(stack) - 1)
    /\ pc' = "raise"
    /\ UNCHANGED <<py2, fn, var, expected_type, cond, readable, source, call, result,
                   fr, nopens, tk, step, level, args_tokens, outcome>>

(***************************************************************************)
(* Back in the assertion: the error is raised.                             *)
(***************************************************************************)
\* assert_is_type, assert_matches: [0] of an empty list raises IndexError
RaiseIndexError ==
    /\ pc = "raise"
    /\ fn # "assert_satisfies"
    /\ args = <<>>
    /\ Finish("IndexError")
    /\ UNCHANGED <<py2, fn, var, expected_type, cond, readable, source, call, result,
                   fr, handles, nopens, tk, step, level, args_tokens, args>>

\* assert_satisfies: vname, vexpr = ... raises ValueError unless there are two
RaiseUnpackError ==
    /\ pc = "raise"
    /\ fn = "assert_satisfies"
    /\ Len(args) # 2
    /\ Finish("ValueError")
    /\ UNCHANGED <<py2, fn, var, expected_type, cond, readable, source, call, result,
                   fr, handles, nopens, tk, step, level, args_tokens, args>>

\* raise H2OTypeError(var_name=vname, ...)
RaiseTypeError ==
    /\ pc = "raise"
    /\ fn \in Wrappers \cup {"assert_is_type"}
    /\ args # <<>>
    /\ Finish("H2OTypeError")
    /\ UNCHANGED <<py2, fn, var, expected_type, cond, readable, source, call, result,
                   fr, handles, nopens, tk, step, level, args_tokens, args>>

\* raise H2OValueError(message, var_name=vn, skip_frames=1)
RaiseValueError ==
    /\ pc = "raise"
    /\ \/ fn = "assert_matches" /\ args # <<>>
       \/ fn = "assert_satisfies" /\ Len(args) = 2
    /\ Finish("H2OValueError")
    /\ UNCHANGED <<py2, fn, var, expected_type, cond, readable, source, call, result,
                   fr, handles, nopens, tk, step, level, args_tokens, args>>

Next ==
    \/ WrapperCall
    \/ AssertIsTypePass
    \/ AssertIsTypeInvalid
    \/ AssertIsTypeFail
    \/ AssertMatchesTypeError
    \/ AssertMatchesPass
    \/ AssertMatchesFail
    \/ AssertSatisfiesPass
    \/ AssertSatisfiesFail
    \/ AssertTrue
    \/ Retrieve
    \/ WalkStep
    \/ WalkEnd
    \/ OpenNoFrame
    \/ OpenFails
    \/ OpenFile
    \/ SkipLines
    \/ SkipLinesStop
    \/ ScanTokenError
    \/ ScanEnd
    \/ ScanSkip
    \/ ScanName
    \/ ScanParen
    \/ ScanParenAssert
    \/ ScanComma
    \/ ScanClose
    \/ ScanArg
    \/ ScanLevelAssert
    \/ ReturnArgs
    \/ RaiseIndexError
    \/ RaiseUnpackError
    \/ RaiseTypeError
    \/ RaiseValueError

Spec == Init /\ [][Next]_vars

(***************************************************************************)
(* What the claims speak of.                                               *)
(***************************************************************************)
\* the caller's frames, and the newest of them: the frame that called the assertion
CallerFrames == Unwind(stack)
ReportedLine == CallerFrames[Len(CallerFrames)].lineno

\* the frames outside the library's file
OutsideFrames == {i \in 1 .. Len(stack) : stack[i].file # this_filename}

Max(S) == CHOOSE m \in S : \A n \in S : n <= m

\* the assertion's own check failed
CheckFailed ==
    \/ fn \in Wrappers \cup {"assert_is_type"} /\ result = "False"
    \/ fn = "assert_matches" /\ is_str(py2, var) /\ ~cond
    \/ fn = "assert_satisfies" /\ ~cond

\* no token that starts with "assert_" from the reported line on
NoAssertToken ==
    \A r \in 1 .. Len(source) :
        r >= ReportedLine => \A k \in 1 .. Len(source[r]) : ~StartsWithAssert(source[r][k])

\* the source text of the call cannot be recovered
Unrecoverable ==
    \/ OutsideFrames = {}
    \/ ~CanOpen(CallerFrames[Len(CallerFrames)].file)
    \/ NoAssertToken

\* the tokens of a text: its atoms but the blanks and the continuation backslashes
Tokens(text) == SelectSeq(text, LAMBDA a : a \notin {" ", "\\", "\n"})

\* a specification that is a type, None, or a tuple of well-formed specifications
RECURSIVE WellFormed(_)
WellFormed(sp) ==
    \/ sp.kind \in {"None", "type"}
    \/ sp.kind = "tuple" /\ \A i \in 1 .. Len(sp.items) : WellFormed(sp.items[i])

\* the permutations of 1 .. n
Perms(n) == {f \in [1 .. n -> 1 .. n] : \A i, j \in 1 .. n : f[i] = f[j] => i = j}

\* the introspector gave one text per argument of the generated call, each with the
\* argument's tokens in order and no newline
Recovered ==
    /\ Len(args) = Len(call.args)
    /\ \A i \in 1 .. Len(args) :
          /\ Tokens(args[i]) = Tokens(call.args[i])
          /\ \A k \in 1 .. Len(args[i]) : args[i][k] # "\n"

\* C1: whenever an assertion's check fails and the caller's source text cannot be
\* recovered (the file cannot be opened, no frame outside the library exists, or no
\* token starting with "assert_" follows), the call still ends with its primary
\* violation, H2OTypeError or H2OValueError, and with no other error.
C1_PrimaryViolationSurvivesLostSource ==
    (pc = "done" /\ CheckFailed /\ Unrecoverable)
        => outcome \in {"H2OTypeError", "H2OValueError"}

\* C2: assert_is_type with a malformed type specification (neither a type, None,
\* nor a tuple of those, a malformed element at any position of a tuple included)
\* ends with RuntimeError for every value: never a type violation, never a return.
C2_MalformedSpecRaisesRuntimeError ==
    (pc = "done" /\ fn = "assert_is_type" /\ ~WellFormed(expected_type))
        => outcome = "RuntimeError"

\* C3: for a tuple specification T, _check_type(v, T) is true iff the check of v
\* against at least one alternative of T is true, and the outcome (true, false or
\* error) is the same for every reordering of the alternatives.
C3_AlternationIsOrderIndependent ==
    (fn = "assert_is_type" /\ result # "" /\ expected_type.kind = "tuple")
        => LET items == expected_type.items
               n == Len(items)
           IN  /\ (result = "True") <=>
                     (\E i \in 1 .. n : _check_type(py2, var, items[i], TRUE) = "True")
               /\ \A f \in Perms(n) :
                     _check_type(py2, var, TupleSpec([i \in 1 .. n |-> items[f[i]]]),
                                 FALSE) = result

\* C4: a passing assertion reads no file: when the call returns, open() was never
\* called, no handle is open, and the introspector never ran (no stack walk, no
\* token was read).
C4_PassingAssertionOpensNoFile ==
    outcome = "return"
        => /\ nopens = 0
           /\ handles = 0
           /\ fr = 0
           /\ tk = TkInit
           /\ args_tokens = <<>>

C4_Witness ==
    /\ outcome = "return"
    /\ fn = "assert_maybe_numeric"
    /\ var = "float"
    /\ nopens = 0

C7_IntSpecMatchesIntegersOnly ==
    (result # "" /\ expected_type = TypeSpec("int"))
        => ((result = "True") <=> var \in {"int", "long"})

C9_WalkSelectsCallerFrame ==
    (pc = "open" /\ OutsideFrames # {})
        => /\ fr = Max(OutsideFrames)
           /\ stack[fr].name \notin LibFunctions
           /\ fr = Len(CallerFrames)

C9_Witness ==
    /\ pc = "open"
    /\ fn \in Wrappers
    /\ Len(stack) = 6
    /\ fr = 3

\* C10: a tuple specification that holds a tuple as one of its alternatives makes
\* _check_type raise RuntimeError for every value, wherever the nested tuple sits
\* and whether or not an earlier alternative matches the value.
C10_NestedTupleRaisesRuntimeError ==
    (fn = "assert_is_type" /\ result # "" /\ expected_type.kind = "tuple"
        /\ \E i \in 1 .. Len(expected_type.items) : expected_type.items[i].kind = "tuple")
        => result = "RuntimeError"

====
